---- MODULE Spec2Model ----
(***************************************************************************)
(* A model of the no-sugar habit bot: the daily check-in handlers with     *)
(* their streak counters (handlers/checkin.py, database/repository.py) and *)
(* the per-user conversational state that gates free text                  *)
(* (services/user_state_service.py, handlers/text.py, handlers/recipes.py, *)
(* handlers/notes.py).                                                     *)
(*                                                                         *)
(* Every handler is a coroutine: it runs until its next await and other    *)
(* handlers may run in between.  A handler is therefore a task with a      *)
(* program counter, and one action of the model is the code between two    *)
(* awaits.                                                                 *)
(***************************************************************************)
EXTENDS Integers, Sequences, FiniteSets, TLC

\* ------------------------------------------------------------------ bounds
\* Calendar days are 1..MaxDay when callbacks are handled one after the
\* other, and 1..MaxRaceDay when they are handled concurrently;
\* date.today() is the variable today.
MaxDay == 4
MaxRaceDay == 2
\* Handlers that may be in flight at the same time.
MaxTasks == 2
\* Rows the notes and recipes tables may hold together.
MaxRows == 2
\* Rows the challenges table may hold.
MaxChallenges == 2

\* Telegram user ids that talk to the bot.
\* The scheduler is followed to the end of week MaxWeeks (it starts in week 0).
MaxWeeks == 1
\* A sleep may return up to MaxLate minutes after its deadline, and a firing
\* may take up to MaxBusy minutes.
MaxLate == 1
MaxBusy == 1
\* A sleep may return up to MaxEarly minutes before its deadline.
MaxEarly == 1

Users == {101, 102}
Tasks == 1..MaxTasks

VARIABLES
    today,        \* date.today()
    users,        \* table users, keyed by telegram id (users.user_id, unique)
    checkins,     \* table checkins: per telegram user, that user's rows in
                  \* insertion order (no query reads across users)
    notes,        \* table notes, partitioned like checkins
    recipes,      \* table recipes, partitioned like checkins
    user_states,  \* UserStateService._user_states
    tasks,        \* the handlers in flight
    challenges,   \* table challenges, partitioned like checkins
    now,          \* datetime.now(bishkek_tz), in minutes since a Monday 00:00
    scheduler,    \* SchedulerService: is_running and its loop
    fanout,       \* a firing of the scheduler going through the users
    ai            \* a call of the text generator

vars == <<today, users, checkins, notes, recipes, user_states, tasks,
          challenges, now, scheduler, fanout, ai>>

\* What the handlers of the conversation and of the check-in leave alone.
service_vars == <<challenges, now, scheduler, fanout, ai>>

\* ------------------------------------------------------------------ rows
NoUser == [id |-> 0, current_streak |-> 0, longest_streak |-> 0,
           total_days |-> 0, total_slip_ups |-> 0]

\* models.User with total_days defaulting to 1.
NewUser_CountedDay(id) == [id |-> id, current_streak |-> 0, longest_streak |-> 0,
                           total_days |-> 1, total_slip_ups |-> 0]

\* models.User: the counters default to 0.
NewUser(id) == [id |-> id, current_streak |-> 0, longest_streak |-> 0,
                total_days |-> 0, total_slip_ups |-> 0]

\* models.CheckIn
CheckInRow(uid, d, s) == [user_id |-> uid, check_date |-> d, success |-> s]

\* A handler in flight: where it is (pc), which handler it is, the telegram
\* user it serves, its input (arg: the success flag of a check-in callback,
\* the text of a message), the session's User object (user) and the branch
\* handle_text took (branch).
FreeTask == [pc |-> "free", handler |-> "none", tg |-> 0, arg |-> <<>>,
             user |-> NoUser, branch |-> "none"]

\* A handler that has ended: what it held is gone, how it ended is kept
\* until the dispatcher takes the slot back.
Ended(task, how) ==
    [FreeTask EXCEPT !.pc = how, !.handler = task.handler, !.tg = task.tg]

\* A handler whose reply is out: the branch says which reply it was.
Replied(task) ==
    [FreeTask EXCEPT !.pc = "replied", !.handler = task.handler, !.tg = task.tg,
                     !.branch = task.branch]

Max(a, b) == IF a >= b THEN a ELSE b

HasUser(u) == users[u].id # 0

\* The autoincrement primary key of a new users row.
NextUserId == Cardinality({u \in Users : HasUser(u)}) + 1

NoTaskInFlight == \A t \in Tasks : tasks[t].pc = "free"

\* The lowest free slot: which slot a handler runs in has no meaning.
IsFirstFree(t) ==
    /\ tasks[t].pc = "free"
    /\ \A s \in Tasks : s < t => tasks[s].pc # "free"

\* ------------------------------------------------------------------ queries
\* get_today_checkin with the date filter lost: it matches no stored row.
TodayCheckins_NoDateMatch(u, uid) ==
    {i \in 1..Len(checkins[u]) :
        checkins[u][i].user_id = uid /\ checkins[u][i].check_date = today + 1}

\* CheckInRepository.get_today_checkin: the ids of the rows that match.
TodayCheckins(u, uid) ==
    {i \in 1..Len(checkins[u]) :
        checkins[u][i].user_id = uid /\ checkins[u][i].check_date = today}

\* CheckInRepository.get_user_stats: the three counts over the table.
CountRows(u, S) ==
    Cardinality({i \in 1..Len(checkins[u]) : checkins[u][i].success \in S})

get_user_stats(u) ==
    [total_days |-> CountRows(u, BOOLEAN),
     success_count |-> CountRows(u, {TRUE}),
     fail_count |-> CountRows(u, {FALSE})]

\* ORDER BY check_date DESC: every order of the user's rows the database
\* may return (rows of one date come in any order).
RECURSIVE OrdersDesc(_, _)
OrdersDesc(rows, ids) ==
    IF ids = {} THEN {<<>>}
    ELSE LET top == {i \in ids : \A j \in ids :
                        rows[j].check_date <= rows[i].check_date}
         IN  UNION {{<<rows[i]>> \o rest : rest \in OrdersDesc(rows, ids \ {i})}
                    : i \in top}

\* The loop of get_current_streak: count successes until the first failure.
RECURSIVE CountLeadingSuccess(_)
CountLeadingSuccess(order) ==
    IF order = <<>> THEN 0
    ELSE IF Head(order).success
         THEN 1 + CountLeadingSuccess(Tail(order))
         ELSE 0

\* CheckInRepository.get_current_streak: the values it may return.
get_current_streak(u) ==
    {CountLeadingSuccess(o) : o \in OrdersDesc(checkins[u], DOMAIN checkins[u])}

\* ------------------------------------------------------------------ streak
\* update_streak that keeps the streak running over a failure.
StreakAfter_NoReset(u, success) ==
    LET cur == IF success THEN u.current_streak + 1 ELSE u.current_streak
    IN  [u EXCEPT
            !.current_streak = cur,
            !.longest_streak = Max(u.longest_streak, cur),
            !.total_days = u.total_days + 1,
            !.total_slip_ups = IF success THEN u.total_slip_ups
                               ELSE u.total_slip_ups + 1]

\* update_streak that stores the current streak as the longest one.
StreakAfter_LongestIsCurrent(u, success) ==
    LET cur == IF success THEN u.current_streak + 1 ELSE 0
    IN  [u EXCEPT
            !.current_streak = cur,
            !.longest_streak = IF success THEN cur ELSE u.longest_streak,
            !.total_days = u.total_days + 1,
            !.total_slip_ups = IF success THEN u.total_slip_ups
                               ELSE u.total_slip_ups + 1]

\* update_streak that counts a day only when it was a success.
StreakAfter_DaysOnSuccess(u, success) ==
    LET cur == IF success THEN u.current_streak + 1 ELSE 0
    IN  [u EXCEPT
            !.current_streak = cur,
            !.longest_streak = IF success THEN Max(u.longest_streak, cur)
                               ELSE u.longest_streak,
            !.total_days = IF success THEN u.total_days + 1 ELSE u.total_days,
            !.total_slip_ups = IF success THEN u.total_slip_ups
                               ELSE u.total_slip_ups + 1]

\* CheckInRepository.update_streak on the session's User object.
StreakAfter(u, success) ==
    LET cur == IF success THEN u.current_streak + 1 ELSE 0
    IN  [u EXCEPT
            !.current_streak = cur,
            !.longest_streak = IF success THEN Max(u.longest_streak, cur)
                               ELSE u.longest_streak,
            !.total_days = u.total_days + 1,
            !.total_slip_ups = IF success THEN u.total_slip_ups
                               ELSE u.total_slip_ups + 1]

\* The UPDATE the commit flushes: only the attributes whose value changed on
\* the session's object are written to the row.
Flush(row, before, after) ==
    [f \in DOMAIN row |-> IF after[f] # before[f] THEN after[f] ELSE row[f]]

\* ------------------------------------------------------------------ init
\* SchedulerService.__init__: not running.  next_task, task_type and
\* wait_seconds are the locals of _wait_until_next_task, fired the actions
\* the last _process_scheduled_tasks started, retried whether the loop came
\* back from the backoff since it last woke up.
IdleScheduler ==
    [pc |-> "idle", is_running |-> FALSE, next_task |-> 0, task_type |-> "none",
     wait_seconds |-> 0, fired |-> {}, retried |-> FALSE]

\* No firing is going through the users.  A firing has a kind (reminder or
\* challenge), the users it loaded and still has to serve (queue), the
\* users the table held when it started (known), those it tried to send
\* a reminder to (due), the challenge text, and per user the messages that
\* were delivered (sent).
IdleFanout ==
    [pc |-> "idle", kind |-> "none", queue |-> <<>>, known |-> {}, due |-> {},
     text |-> "none", sent |-> [u \in Users |-> 0]]

\* The text generator between calls: client says whether __init__ found the
\* API key and built the client; fn, arg, outcome and result are those of
\* the call under way or last returned.
IdleCall ==
    [pc |-> "idle", client |-> TRUE, fn |-> "none", arg |-> 0,
     outcome |-> "none", result |-> "none"]

\* The empty database and the services as the container builds them.
InitTables ==
    /\ today = 1
    /\ users = [u \in Users |-> NoUser]
    /\ checkins = [u \in Users |-> <<>>]
    /\ notes = [u \in Users |-> <<>>]
    /\ recipes = [u \in Users |-> <<>>]
    /\ user_states = [u \in {} |-> "idle"]
    /\ tasks = [t \in Tasks |-> FreeTask]
    /\ challenges = [u \in Users |-> <<>>]
    /\ scheduler = IdleScheduler
    /\ fanout = IdleFanout

Init ==
    /\ InitTables
    /\ now = 0
    /\ ai = IdleCall

\* ------------------------------------------------------------------ users
\* BaseHandler.get_user, first half: UserRepository.get_by_telegram_id.
GetUser(t) ==
    /\ tasks[t].pc = "get_user"
    /\ LET u == tasks[t].tg
       IN  tasks' = [tasks EXCEPT ![t] =
                IF HasUser(u)
                THEN [@ EXCEPT !.pc = "got_user", !.user = users[u]]
                ELSE [@ EXCEPT !.pc = "create_user"]]
    /\ UNCHANGED <<today, users, checkins, notes, recipes, user_states>>
    /\ UNCHANGED service_vars

\* BaseHandler.get_user, second half: UserRepository.create_user.  user_id is
\* unique: the commit of a second row for the same telegram id raises.
CreateUser(t) ==
    /\ tasks[t].pc = "create_user"
    /\ LET u == tasks[t].tg
       IN  IF HasUser(u)
           THEN /\ tasks' = [tasks EXCEPT ![t] = Ended(@, "raised")]
                /\ UNCHANGED users
           ELSE /\ users' = [users EXCEPT ![u] = NewUser(NextUserId)]
                /\ tasks' = [tasks EXCEPT ![t] =
                        [@ EXCEPT !.pc = "got_user", !.user = NewUser(NextUserId)]]
    /\ UNCHANGED <<today, checkins, notes, recipes, user_states>>
    /\ UNCHANGED service_vars

\* ------------------------------------------------------------------ check-in
\* CheckInHandler.handle_checkin: a checkin_success or checkin_fail callback.
StartCheckin(t, u, success) ==
    /\ IsFirstFree(t)
    /\ tasks' = [tasks EXCEPT ![t] =
            [FreeTask EXCEPT !.pc = "get_user", !.handler = "checkin",
                             !.tg = u, !.arg = success]]
    /\ UNCHANGED <<today, users, checkins, notes, recipes, user_states>>
    /\ UNCHANGED service_vars

\* process_*_checkin: get_today_checkin and the early return.
\* scalar_one_or_none raises on more than one row.
GetTodayCheckin(t) ==
    /\ tasks[t].pc = "got_user"
    /\ tasks[t].handler = "checkin"
    /\ LET n == Cardinality(TodayCheckins(tasks[t].tg, tasks[t].user.id))
       IN  tasks' = [tasks EXCEPT ![t] =
                IF n = 0 THEN [@ EXCEPT !.pc = "create_checkin"]
                ELSE IF n = 1 THEN Ended(@, "rejected") ELSE Ended(@, "raised")]
    /\ UNCHANGED <<today, users, checkins, notes, recipes, user_states>>
    /\ UNCHANGED service_vars

\* CheckInRepository.create_checkin: insert and commit.
CreateCheckin(t) ==
    /\ tasks[t].pc = "create_checkin"
    /\ checkins' = [checkins EXCEPT ![tasks[t].tg] =
            Append(@, CheckInRow(tasks[t].user.id, today, tasks[t].arg))]
    /\ tasks' = [tasks EXCEPT ![t].pc = "update_streak"]
    /\ UNCHANGED <<today, users, notes, recipes, user_states>>
    /\ UNCHANGED service_vars

\* CheckInRepository.update_streak: session.get returns the session's own
\* User object (expire_on_commit is off), the counters are computed on it
\* and the commit writes the changed ones; then session.refresh and the
\* reply.
UpdateStreak(t) ==
    /\ tasks[t].pc = "update_streak"
    /\ LET u == tasks[t].tg
           before == tasks[t].user
           after == StreakAfter(before, tasks[t].arg)
       IN  /\ users' = [users EXCEPT ![u] = Flush(@, before, after)]
           /\ tasks' = [tasks EXCEPT ![t] = Ended(tasks[t], "done")]
    /\ UNCHANGED <<today, checkins, notes, recipes, user_states>>
    /\ UNCHANGED service_vars

\* The handler returns (or its exception reaches the dispatcher).
Finish(t) ==
    /\ tasks[t].pc \in {"done", "rejected", "raised", "replied"}
    /\ tasks' = [tasks EXCEPT ![t] = FreeTask]
    /\ UNCHANGED <<today, users, checkins, notes, recipes, user_states>>
    /\ UNCHANGED service_vars

\* Midnight: date.today() moves on.
AdvanceDay(limit) ==
    /\ today < limit
    /\ today' = today + 1
    /\ UNCHANGED <<users, checkins, notes, recipes, user_states, tasks>>
    /\ UNCHANGED service_vars

\* ------------------------------------------------------------------ specs
CheckinStep(t) ==
    \/ GetUser(t)
    \/ CreateUser(t)
    \/ GetTodayCheckin(t)
    \/ CreateCheckin(t)
    \/ UpdateStreak(t)
    \/ Finish(t)

\* Check-in callbacks handled concurrently.
Next ==
    \/ \E t \in Tasks, u \in Users, s \in BOOLEAN : StartCheckin(t, u, s)
    \/ \E t \in Tasks : CheckinStep(t)
    \/ AdvanceDay(MaxRaceDay)

Spec == Init /\ [][Next]_vars

\* Check-in callbacks handled one after the other: a callback is taken up
\* when the handler before it has returned.
NextSerial ==
    \/ \E t \in Tasks, u \in Users, s \in BOOLEAN :
            NoTaskInFlight /\ StartCheckin(t, u, s)
    \/ \E t \in Tasks : CheckinStep(t)
    \/ AdvanceDay(MaxDay)

SpecSerial == Init /\ [][NextSerial]_vars

\* ------------------------------------------------------------------ modes
\* services.user_state_service.UserState
IDLE == "idle"
WAITING_FOR_RECIPE_INGREDIENTS == "waiting_for_recipe_ingredients"
WAITING_FOR_NOTE_CONTENT == "waiting_for_note_content"
WAITING_FOR_SLIP_ANALYSIS == "waiting_for_slip_analysis"

UserState == {IDLE, WAITING_FOR_RECIPE_INGREDIENTS, WAITING_FOR_NOTE_CONTENT,
              WAITING_FOR_SLIP_ANALYSIS}

\* UserStateService on the dictionary S = _user_states.
set_user_state(S, u, state) ==
    [v \in DOMAIN S \cup {u} |-> IF v = u THEN state ELSE S[v]]

get_user_state(S, u) == IF u \in DOMAIN S THEN S[u] ELSE IDLE

\* clear_user_state emptying the whole dictionary.
clear_user_state_All(S, u) == [v \in {} |-> IDLE]

clear_user_state(S, u) == [v \in DOMAIN S \ {u} |-> S[v]]

is_waiting_for_recipe(S, u) == get_user_state(S, u) = WAITING_FOR_RECIPE_INGREDIENTS
is_waiting_for_note(S, u) == get_user_state(S, u) = WAITING_FOR_NOTE_CONTENT
is_waiting_for_slip_analysis(S, u) == get_user_state(S, u) = WAITING_FOR_SLIP_ANALYSIS

\* The handler classes that define get_user_state_service (BaseHandler does
\* not): on any other handler the call raises AttributeError.
StateServiceAccessors == {"RecipesHandler", "TextHandler"}

\* ------------------------------------------------------------------ texts
\* A message text is a sequence of words; " " is white space.  The Russian
\* words of the source are written in Latin letters.
Texts == {
    <<"yabloki", "korica">>,
    <<"Hochu", "sladkogo">>,
    <<"moya", "statistika">>,
    <<" ", "HELP">> }

\* str.lower() on a word.
LowerWord(w) ==
    CASE w = "Hochu" -> "hochu"
      [] w = "HELP" -> "help"
      [] OTHER -> w

Lower(x) == [i \in 1..Len(x) |-> LowerWord(x[i])]

\* str.strip(): white space at both ends goes.
RECURSIVE Strip(_)
Strip(x) ==
    IF x = <<>> THEN x
    ELSE IF Head(x) = " " THEN Strip(Tail(x))
    ELSE IF x[Len(x)] = " " THEN Strip(SubSeq(x, 1, Len(x) - 1))
    ELSE x

\* A word contains a keyword's word as a substring.
WordContains(w, k) == w = k \/ (w = "statistika" /\ k = "statistik")

\* Python's `phrase in text`.
Contains(x, phrase) ==
    \E i \in 1..(Len(x) - Len(phrase) + 1) :
        \A j \in 1..Len(phrase) : WordContains(x[i + j - 1], phrase[j])

\* handle_text: the keyword chain on message.text.lower().strip().
KeywordBranch(x) ==
    LET text == Strip(Lower(x))
    IN  IF Contains(text, <<"hochu", "sladkogo">>)
             \/ Contains(text, <<"hochu", "sladkoe">>) THEN "sweet_craving"
        ELSE IF Contains(text, <<"motivaciya">>) THEN "motivation"
        ELSE IF Contains(text, <<"statistika">>)
             \/ Contains(text, <<"statistik">>) THEN "stats"
        ELSE IF Contains(text, <<"pomosch">>)
             \/ Contains(text, <<"help">>) THEN "help"
        ELSE "none"

\* check_user_state treating every text as recipe ingredients.
StateBranch_AlwaysRecipe(S, u) == "recipe"

\* check_user_state: the branch the stored mode selects.
StateBranch(S, u) ==
    IF is_waiting_for_recipe(S, u) THEN "recipe"
    ELSE IF is_waiting_for_note(S, u) THEN "note"
    ELSE IF is_waiting_for_slip_analysis(S, u) THEN "slip_analysis"
    ELSE "unknown"

\* handle_text: keywords first, the stored mode only in the else branch.
Route(S, u, x) ==
    IF KeywordBranch(x) # "none" THEN KeywordBranch(x) ELSE StateBranch(S, u)

ModeBranches == {"recipe", "note", "slip_analysis"}
ReplyBranches == {"sweet_craving", "motivation", "stats"}

\* AIService.generate_recipe returns the generated text or the fallback.
RecipeTexts == {"generated", "fallback"}

\* models.Note keeping only the first word of the content.
NoteRow_Truncated(uid, content) ==
    [user_id |-> uid, content |-> SubSeq(content, 1, 1)]

\* models.Note, models.Recipe
NoteRow(uid, content) == [user_id |-> uid, content |-> content]
RecipeRow(uid, ingredients, text) ==
    [user_id |-> uid, ingredients |-> ingredients, recipe_text |-> text]

\* Rows stored, and rows the handlers in flight may still store.
RowsInUse ==
    LET RECURSIVE Sum(_)
        Sum(S) == IF S = {} THEN 0
                  ELSE LET u == CHOOSE v \in S : TRUE
                       IN  Len(notes[u]) + Len(recipes[u]) + Sum(S \ {u})
    IN  Sum(Users)
        + Cardinality({t \in Tasks : tasks[t].handler = "text"
                        /\ tasks[t].branch \in ModeBranches
                        /\ tasks[t].pc \in {"get_user", "create_user",
                                            "got_user", "save"}})

\* ------------------------------------------------------------------ text
\* TextHandler.handle_text up to its first await: the keyword chain, and in
\* its else branch check_user_state's reading of the mode.  The help and
\* the 'unrecognized' replies need nothing else: the handler has replied.
HandleText(t, u, x) ==
    /\ IsFirstFree(t)
    /\ LET b == Route(user_states, u, x)
           task == [FreeTask EXCEPT !.pc = "get_user", !.handler = "text",
                                    !.tg = u, !.branch = b,
                                    !.arg = IF b \in ModeBranches THEN x ELSE <<>>]
       IN  /\ b \in ModeBranches => RowsInUse < MaxRows
           /\ tasks' = [tasks EXCEPT ![t] =
                   IF b \in {"help", "unknown"} THEN Replied(task) ELSE task]
    /\ UNCHANGED <<today, users, checkins, notes, recipes, user_states>>
    /\ UNCHANGED service_vars

\* handle_sweet_craving, handle_motivation_request, handle_stats_request
\* after get_user: they read and answer.
KeywordReply(t) ==
    /\ tasks[t].pc = "got_user"
    /\ tasks[t].handler = "text"
    /\ tasks[t].branch \in ReplyBranches
    /\ tasks' = [tasks EXCEPT ![t] = Replied(@)]
    /\ UNCHANGED <<today, users, checkins, notes, recipes, user_states>>
    /\ UNCHANGED service_vars

\* create_*_from_text after get_user: the 'processing' message.
TextProcessing(t) ==
    /\ tasks[t].pc = "got_user"
    /\ tasks[t].handler = "text"
    /\ tasks[t].branch \in ModeBranches
    /\ tasks' = [tasks EXCEPT ![t].pc = "save"]
    /\ UNCHANGED <<today, users, checkins, notes, recipes, user_states>>
    /\ UNCHANGED service_vars

\* create_*_from_text, the try block up to the commit: the recipe is
\* generated and stored, the note or the prefixed slip analysis is stored;
\* an exception is caught by the handler.
TextSave(t) ==
    /\ tasks[t].pc = "save"
    /\ LET u == tasks[t].tg
           uid == tasks[t].user.id
           x == tasks[t].arg
       IN  \E ok \in BOOLEAN, r \in RecipeTexts :
            /\ ok \/ r = "generated"
            /\ tasks' = [tasks EXCEPT ![t].pc =
                    IF ok THEN "respond_saved" ELSE "respond_failed"]
            /\ recipes' = IF ok /\ tasks[t].branch = "recipe"
                          THEN [recipes EXCEPT ![u] = Append(@, RecipeRow(uid, x, r))]
                          ELSE recipes
            /\ notes' = IF ok /\ tasks[t].branch = "note"
                        THEN [notes EXCEPT ![u] = Append(@, NoteRow(uid, x))]
                        ELSE IF ok /\ tasks[t].branch = "slip_analysis"
                        THEN [notes EXCEPT ![u] =
                                Append(@, NoteRow(uid, <<"ANALIZ SRYVA:">> \o x))]
                        ELSE notes
    /\ UNCHANGED <<today, users, checkins, user_states>>
    /\ UNCHANGED service_vars

\* create_*_from_text: the 'processing' message is deleted and the result
\* (or the error text) is sent.
TextRespond(t) ==
    /\ tasks[t].pc \in {"respond_saved", "respond_failed"}
    /\ tasks' = [tasks EXCEPT ![t] = [@ EXCEPT !.pc = "clear", !.arg = <<>>]]
    /\ UNCHANGED <<today, users, checkins, notes, recipes, user_states>>
    /\ UNCHANGED service_vars

\* check_user_state after create_*_from_text has returned: clear_user_state,
\* and the handler is over.
TextClear(t) ==
    /\ tasks[t].pc = "clear"
    /\ user_states' = clear_user_state(user_states, tasks[t].tg)
    /\ tasks' = [tasks EXCEPT ![t] = FreeTask]
    /\ UNCHANGED <<today, users, checkins, notes, recipes>>
    /\ UNCHANGED service_vars

\* An await outside the try block raises (the user lookup, sending or
\* deleting a message): the exception leaves handle_text and the handler
\* is over.
TextRaise(t) ==
    /\ tasks[t].handler = "text"
    /\ tasks[t].branch \in ModeBranches
    /\ tasks[t].pc \in {"get_user", "got_user", "respond_saved", "respond_failed"}
    /\ tasks' = [tasks EXCEPT ![t] = FreeTask]
    /\ UNCHANGED <<today, users, checkins, notes, recipes, user_states>>
    /\ UNCHANGED service_vars

\* ------------------------------------------------------------------ entering
\* RecipesHandler.start_recipe_creation(_from_callback): /recipe or the
\* recipe_create button sets the mode (and sends the prompt).
StartRecipeCreation(u) ==
    /\ user_states' = set_user_state(user_states, u, WAITING_FOR_RECIPE_INGREDIENTS)
    /\ UNCHANGED <<today, users, checkins, notes, recipes, tasks>>
    /\ UNCHANGED service_vars

\* NotesHandler.start_note_creation: /note or the note_create button sends
\* the prompt, and that is all it does.
StartNoteCreation(t, u) ==
    /\ IsFirstFree(t)
    /\ tasks' = [tasks EXCEPT ![t] =
            Replied([FreeTask EXCEPT !.handler = "note_creation", !.tg = u,
                                     !.branch = "note_prompt"])]
    /\ UNCHANGED <<today, users, checkins, notes, recipes, user_states>>
    /\ UNCHANGED service_vars

\* CheckInHandler.handle_slip_analysis: the slip_analysis button.
StartSlipAnalysis(t, u) ==
    /\ IsFirstFree(t)
    /\ tasks' = [tasks EXCEPT ![t] =
            [FreeTask EXCEPT !.pc = "get_user", !.handler = "slip_analysis",
                             !.tg = u]]
    /\ UNCHANGED <<today, users, checkins, notes, recipes, user_states>>
    /\ UNCHANGED service_vars

\* handle_slip_analysis after get_user: self.get_user_state_service() on a
\* CheckInHandler, then set_user_state (and the prompt); the handler is over.
SetSlipAnalysisState(t) ==
    /\ tasks[t].pc = "got_user"
    /\ tasks[t].handler = "slip_analysis"
    /\ user_states' =
            IF "CheckInHandler" \in StateServiceAccessors
            THEN set_user_state(user_states, tasks[t].tg, WAITING_FOR_SLIP_ANALYSIS)
            ELSE user_states
    /\ tasks' = [tasks EXCEPT ![t] = FreeTask]
    /\ UNCHANGED <<today, users, checkins, notes, recipes>>
    /\ UNCHANGED service_vars

\* ------------------------------------------------------------------ buttons
\* Callback data, cut at its underscores: "menu_back" is <<"menu", "back">>.
\* The callback_query handlers in the order the dispatcher tries them: the
\* routers as main() includes them, and within a router the handlers as
\* __init__ registers them, BaseHandler.__init__ first.
CallbackRoutes == <<
    [handler |-> "BaseHandler.handle_back", op |-> "eq", data |-> <<"menu", "back">>],
    [handler |-> "StartHandler.handle_menu", op |-> "startswith", data |-> <<"menu">>],
    [handler |-> "BaseHandler.handle_back", op |-> "eq", data |-> <<"menu", "back">>],
    [handler |-> "CheckInHandler.handle_checkin", op |-> "startswith", data |-> <<"checkin">>],
    [handler |-> "CheckInHandler.handle_challenge", op |-> "eq", data |-> <<"challenge", "complete">>],
    [handler |-> "CheckInHandler.handle_slip_analysis", op |-> "eq", data |-> <<"slip", "analysis">>],
    [handler |-> "BaseHandler.handle_back", op |-> "eq", data |-> <<"menu", "back">>],
    [handler |-> "NotesHandler.handle_notes", op |-> "startswith", data |-> <<"note">>],
    [handler |-> "BaseHandler.handle_back", op |-> "eq", data |-> <<"menu", "back">>],
    [handler |-> "RecipesHandler.handle_recipes", op |-> "startswith", data |-> <<"recipe">>],
    [handler |-> "BaseHandler.handle_back", op |-> "eq", data |-> <<"menu", "back">>] >>

\* F.data == "..." and F.data.startswith("..._").
FilterMatches(route, data) ==
    IF route.op = "eq" THEN data = route.data
    ELSE /\ Len(data) > Len(route.data)
         /\ SubSeq(data, 1, Len(route.data)) = route.data

\* The handler a callback reaches: the first one whose filter matches.
RouteCallback(data) ==
    LET hits == {i \in DOMAIN CallbackRoutes : FilterMatches(CallbackRoutes[i], data)}
    IN  IF hits = {} THEN "unhandled"
        ELSE CallbackRoutes[CHOOSE i \in hits : \A j \in hits : i <= j].handler

\* The Cancel/Back button: callback menu_back.  BaseHandler.handle_back
\* looks the user up and shows the main menu; the menu_back branch of
\* StartHandler.handle_menu calls self.get_user_state_service() and
\* clear_user_state before it shows the main menu.
StartMenuBack(t, u) ==
    /\ IsFirstFree(t)
    /\ LET h == RouteCallback(<<"menu", "back">>)
           task == [FreeTask EXCEPT !.pc = "get_user", !.handler = "menu_back",
                                    !.tg = u, !.branch = "main_menu"]
       IN  IF h = "StartHandler.handle_menu"
           THEN IF "StartHandler" \in StateServiceAccessors
                THEN /\ user_states' = clear_user_state(user_states, u)
                     /\ tasks' = [tasks EXCEPT ![t] = task]
                ELSE /\ tasks' = [tasks EXCEPT ![t] = Ended(task, "raised")]
                     /\ UNCHANGED user_states
           ELSE /\ tasks' = [tasks EXCEPT ![t] = task]
                /\ UNCHANGED user_states
    /\ UNCHANGED <<today, users, checkins, notes, recipes>>
    /\ UNCHANGED service_vars

\* handle_back / show_main_menu after get_user: the main menu is shown.
ShowMainMenu(t) ==
    /\ tasks[t].pc = "got_user"
    /\ tasks[t].handler = "menu_back"
    /\ tasks' = [tasks EXCEPT ![t] = Replied(@)]
    /\ UNCHANGED <<today, users, checkins, notes, recipes, user_states>>
    /\ UNCHANGED service_vars

TextStep(t) ==
    \/ GetUser(t)
    \/ CreateUser(t)
    \/ KeywordReply(t)
    \/ TextProcessing(t)
    \/ TextSave(t)
    \/ TextRespond(t)
    \/ TextClear(t)
    \/ TextRaise(t)
    \/ SetSlipAnalysisState(t)
    \/ ShowMainMenu(t)
    \/ Finish(t)

\* Messages and buttons of the conversation, handled concurrently.
NextText ==
    \/ \E t \in Tasks, u \in Users, x \in Texts : HandleText(t, u, x)
    \/ \E u \in Users : StartRecipeCreation(u)
    \/ \E t \in Tasks, u \in Users : StartNoteCreation(t, u)
    \/ \E t \in Tasks, u \in Users : StartSlipAnalysis(t, u)
    \/ \E t \in Tasks, u \in Users : StartMenuBack(t, u)
    \/ \E t \in Tasks : TextStep(t)

SpecText == Init /\ [][NextText]_vars

\* The same, handled one after the other.
NextTextSerial ==
    \/ \E t \in Tasks, u \in Users, x \in Texts :
            NoTaskInFlight /\ HandleText(t, u, x)
    \/ \E u \in Users : NoTaskInFlight /\ StartRecipeCreation(u)
    \/ \E t \in Tasks, u \in Users : NoTaskInFlight /\ StartNoteCreation(t, u)
    \/ \E t \in Tasks, u \in Users : NoTaskInFlight /\ StartSlipAnalysis(t, u)
    \/ \E t \in Tasks, u \in Users : NoTaskInFlight /\ StartMenuBack(t, u)
    \/ \E t \in Tasks : TextStep(t)

SpecTextSerial == Init /\ [][NextTextSerial]_vars

\* ------------------------------------------------------------------ the recipe button
\* RecipesHandler.start_recipe_creation_from_callback: the recipe_create
\* button sets the mode and shows the prompt.
PressRecipeCreate(t, u) ==
    /\ IsFirstFree(t)
    /\ RouteCallback(<<"recipe", "create">>) = "RecipesHandler.handle_recipes"
    /\ user_states' = set_user_state(user_states, u, WAITING_FOR_RECIPE_INGREDIENTS)
    /\ tasks' = [tasks EXCEPT ![t] =
            Replied([FreeTask EXCEPT !.handler = "recipe_creation", !.tg = u,
                                     !.branch = "recipe_prompt"])]
    /\ UNCHANGED <<today, users, checkins, notes, recipes>>
    /\ UNCHANGED service_vars

\* The prompt of recipe creation is the last thing the user was shown.
PromptShown(u) ==
    \E s \in Tasks : /\ tasks[s].handler = "recipe_creation"
                     /\ tasks[s].tg = u
                     /\ tasks[s].pc = "replied"

\* Free-text messages and buttons handled concurrently; a user who has the
\* prompt on the screen sends no message before the dispatcher is done with
\* the button.
NextMode ==
    \/ \E t \in Tasks, u \in Users, x \in Texts :
            ~PromptShown(u) /\ HandleText(t, u, x)
    \/ \E t \in Tasks, u \in Users : PressRecipeCreate(t, u)
    \/ \E t \in Tasks, u \in Users : StartSlipAnalysis(t, u)
    \/ \E t \in Tasks, u \in Users : StartMenuBack(t, u)
    \/ \E t \in Tasks : TextStep(t)

SpecMode == Init /\ [][NextMode]_vars

\* ------------------------------------------------------------------ clock
\* Instants are minutes since a Monday 00:00 of the fixed timezone.
DayLength == 24 * 60
WeekLength == 7 * DayLength
Horizon == (MaxWeeks + 1) * WeekLength

\* datetime.date(), .time(), .weekday() (0 is Monday), .hour, .minute and
\* datetime.combine.
DateOf(n) == n \div DayLength
TimeOf(n) == n % DayLength
weekday(n) == DateOf(n) % 7
hour(n) == TimeOf(n) \div 60
minute(n) == TimeOf(n) % 60
combine(d, t) == d * DayLength + t.hour * 60 + t.minute

\* time(19, 0) and time(7, 0)
reminder_time == [hour |-> 19, minute |-> 0]
challenge_time == [hour |-> 7, minute |-> 0]

\* _wait_until_next_task with `>` where the code compares with `>=`.
AtOrAfter_After(n, t) == TimeOf(n) > t.hour * 60 + t.minute

\* now.time() >= t
AtOrAfter(n, t) == TimeOf(n) >= t.hour * 60 + t.minute

\* _wait_until_next_task with the rollover never taken.
next_reminder_NoRollover(n) == combine(DateOf(n), reminder_time)

\* _wait_until_next_task: the next reminder instant.
next_reminder(n) ==
    IF AtOrAfter(n, reminder_time)
    THEN combine(DateOf(n) + 1, reminder_time)
    ELSE combine(DateOf(n), reminder_time)

\* _wait_until_next_task: days_until_monday.
days_until_monday(n) ==
    LET d == (7 - weekday(n)) % 7
    IN  IF d = 0 /\ AtOrAfter(n, challenge_time) THEN 7 ELSE d

\* _wait_until_next_task: the next challenge instant.
next_challenge(n) == combine(DateOf(n) + days_until_monday(n), challenge_time)

\* _wait_until_next_task choosing the later of the two tasks.
WaitUntilNextTask_Later(s, n) ==
    LET reminder == next_reminder(n) > next_challenge(n)
        at == IF reminder THEN next_reminder(n) ELSE next_challenge(n)
    IN  [s EXCEPT !.pc = "sleep",
                  !.next_task = at,
                  !.task_type = IF reminder THEN "reminder" ELSE "challenge",
                  !.wait_seconds = (at - n) * 60]

\* _wait_until_next_task: the earlier task and the wait.
WaitUntilNextTask(s, n) ==
    LET reminder == next_reminder(n) < next_challenge(n)
        at == IF reminder THEN next_reminder(n) ELSE next_challenge(n)
    IN  [s EXCEPT !.pc = "sleep",
                  !.next_task = at,
                  !.task_type = IF reminder THEN "reminder" ELSE "challenge",
                  !.wait_seconds = (at - n) * 60]

\* _process_scheduled_tasks: the actions its two conditions start at now.
ProcessScheduledTasks(n) ==
    (IF hour(n) = reminder_time.hour /\ minute(n) = reminder_time.minute
     THEN {"reminder"} ELSE {})
    \cup
    (IF weekday(n) = 0 /\ hour(n) = challenge_time.hour
                       /\ minute(n) = challenge_time.minute
     THEN {"challenge"} ELSE {})

\* start_scheduler's except clause, with the loop left instead.
OnError_Exit(s) == [s EXCEPT !.pc = "exited"]

\* start_scheduler's except clause: the error is logged and the loop goes
\* to asyncio.sleep(60).
OnError(s) == [s EXCEPT !.pc = "backoff"]

\* asyncio.sleep(60), in minutes.
Backoff == 60 \div 60

\* ------------------------------------------------------------------ scheduler
\* main(): asyncio.create_task(scheduler.start_scheduler()).
StartScheduler ==
    /\ scheduler.pc = "idle"
    /\ ~scheduler.is_running
    /\ scheduler' = [scheduler EXCEPT !.pc = "loop", !.is_running = TRUE]
    /\ UNCHANGED <<today, users, checkins, notes, recipes, user_states, tasks,
                   challenges, now, fanout, ai>>

\* stop_scheduler
StopScheduler ==
    /\ scheduler.is_running
    /\ scheduler' = [scheduler EXCEPT !.is_running = FALSE]
    /\ UNCHANGED <<today, users, checkins, notes, recipes, user_states, tasks,
                   challenges, now, fanout, ai>>

\* start_scheduler: `while self.is_running`, and _wait_until_next_task up
\* to its asyncio.sleep.
LoopIterate ==
    /\ scheduler.pc = "loop"
    /\ scheduler' = IF scheduler.is_running
                    THEN WaitUntilNextTask(scheduler, now)
                    ELSE [scheduler EXCEPT !.pc = "exited"]
    /\ UNCHANGED <<today, users, checkins, notes, recipes, user_states, tasks,
                   challenges, now, fanout, ai>>

\* The sleep returns, at its deadline or later, and
\* _process_scheduled_tasks reads the clock and decides what to start.
WakeAndProcess ==
    /\ scheduler.pc = "sleep"
    /\ \E late \in 0..MaxLate :
        /\ scheduler.next_task + late < Horizon
        /\ now' = scheduler.next_task + late
        /\ scheduler' = [scheduler EXCEPT !.pc = "firing",
                                          !.fired = ProcessScheduledTasks(now'),
                                          !.retried = FALSE]
    /\ UNCHANGED <<today, users, checkins, notes, recipes, user_states, tasks,
                   challenges, fanout, ai>>

\* The sleep returns before its deadline (the event loop's timer and the
\* wall clock that datetime.now reads are different clocks), and
\* _process_scheduled_tasks reads the clock and decides what to start.
WakeEarly ==
    /\ scheduler.pc = "sleep"
    /\ \E early \in 1..MaxEarly :
        /\ scheduler.next_task - early >= now
        /\ scheduler.next_task - early < Horizon
        /\ now' = scheduler.next_task - early
        /\ scheduler' = [scheduler EXCEPT !.pc = "firing",
                                          !.fired = ProcessScheduledTasks(now'),
                                          !.retried = FALSE]
    /\ UNCHANGED <<today, users, checkins, notes, recipes, user_states, tasks,
                   challenges, fanout, ai>>

\* _process_scheduled_tasks returns: the loop goes round.
FiringDone ==
    /\ scheduler.pc = "firing"
    /\ \E busy \in 0..MaxBusy : now' = now + busy
    /\ scheduler' = [scheduler EXCEPT !.pc = "loop"]
    /\ UNCHANGED <<today, users, checkins, notes, recipes, user_states, tasks,
                   challenges, fanout, ai>>

\* An exception leaves _wait_until_next_task or _process_scheduled_tasks.
LoopRaises ==
    /\ scheduler.pc \in {"sleep", "firing"}
    /\ scheduler' = OnError(scheduler)
    /\ UNCHANGED <<today, users, checkins, notes, recipes, user_states, tasks,
                   challenges, now, fanout, ai>>

\* asyncio.sleep(60) of the except clause returns: the loop goes round.
BackoffDone ==
    /\ scheduler.pc = "backoff"
    /\ now + Backoff + MaxLate < Horizon
    /\ \E late \in 0..MaxLate : now' = now + Backoff + late
    /\ scheduler' = [scheduler EXCEPT !.pc = "loop", !.retried = TRUE]
    /\ UNCHANGED <<today, users, checkins, notes, recipes, user_states, tasks,
                   challenges, fanout, ai>>

NextScheduler ==
    \/ StartScheduler
    \/ StopScheduler
    \/ LoopIterate
    \/ WakeAndProcess
    \/ WakeEarly
    \/ FiringDone
    \/ LoopRaises
    \/ BackoffDone

\* The process starts at any instant of a week.
InitScheduler ==
    /\ InitTables
    /\ now \in 0..(WeekLength - 1)
    /\ ai = IdleCall

SpecScheduler == InitScheduler /\ [][NextScheduler]_vars

\* ------------------------------------------------------------------ loops
\* Calls of start_scheduler as coroutines of their own: every call that
\* finds the flag down raises it and enters the while loop.  A coroutine
\* keeps its sleep target and what its processing started in arg.  It
\* gives way to others only at an await: in asyncio.sleep (sleep, backoff)
\* and in a fan-out that _process_scheduled_tasks started (process).
InLoop(t) ==
    /\ tasks[t].handler = "start_scheduler"
    /\ tasks[t].pc \in {"sleep", "process", "backoff"}

\* `while self.is_running`, and _wait_until_next_task up to its
\* asyncio.sleep; the coroutine returns when the flag is down.
WhileTest(task, is_running, n) ==
    IF is_running
    THEN [task EXCEPT !.pc = "sleep",
                      !.arg = <<WaitUntilNextTask(scheduler, n).next_task,
                                {}>>]
    ELSE Ended(task, "returned")

\* start_scheduler: it returns at once when is_running is set, else sets
\* it and enters the loop.
CallStartScheduler(t) ==
    /\ IsFirstFree(t)
    /\ LET call == [FreeTask EXCEPT !.handler = "start_scheduler"]
       IN  IF scheduler.is_running
           THEN /\ tasks' = [tasks EXCEPT ![t] = Ended(call, "returned")]
                /\ UNCHANGED scheduler
           ELSE /\ scheduler' = [scheduler EXCEPT !.is_running = TRUE]
                /\ tasks' = [tasks EXCEPT ![t] = WhileTest(call, TRUE, now)]
    /\ UNCHANGED <<today, users, checkins, notes, recipes, user_states,
                   challenges, now, fanout, ai>>

\* The sleep returns, at its deadline or later, and
\* _process_scheduled_tasks reads the clock: it awaits the fan-outs it
\* starts, and with nothing to start the loop goes round at once.
LoopWake(t) ==
    /\ tasks[t].handler = "start_scheduler"
    /\ tasks[t].pc = "sleep"
    /\ \E late \in 0..MaxLate :
        /\ tasks[t].arg[1] + late < Horizon
        /\ now' = Max(now, tasks[t].arg[1] + late)
        /\ tasks' = [tasks EXCEPT ![t] =
                IF ProcessScheduledTasks(now') = {}
                THEN WhileTest(@, scheduler.is_running, now')
                ELSE [@ EXCEPT !.pc = "process",
                               !.arg = <<@[1], ProcessScheduledTasks(now')>>]]
    /\ UNCHANGED <<today, users, checkins, notes, recipes, user_states,
                   challenges, scheduler, fanout, ai>>

\* _process_scheduled_tasks returns and the loop goes round, or it raises
\* and the except clause goes to asyncio.sleep(60).
LoopProcessed(t) ==
    /\ tasks[t].handler = "start_scheduler"
    /\ tasks[t].pc = "process"
    /\ \E raised \in BOOLEAN :
        tasks' = [tasks EXCEPT ![t] =
            IF raised THEN [@ EXCEPT !.pc = "backoff"]
                      ELSE WhileTest(@, scheduler.is_running, now)]
    /\ UNCHANGED <<today, users, checkins, notes, recipes, user_states,
                   challenges, now, scheduler, fanout, ai>>

\* asyncio.sleep(60) of the except clause returns: the loop goes round.
LoopBackoffDone(t) ==
    /\ tasks[t].handler = "start_scheduler"
    /\ tasks[t].pc = "backoff"
    /\ now + Backoff < Horizon
    /\ now' = now + Backoff
    /\ tasks' = [tasks EXCEPT ![t] = WhileTest(@, scheduler.is_running, now')]
    /\ UNCHANGED <<today, users, checkins, notes, recipes, user_states,
                   challenges, scheduler, fanout, ai>>

\* The event loop drops a coroutine that has returned.
LoopReturned(t) ==
    /\ tasks[t].handler = "start_scheduler"
    /\ tasks[t].pc = "returned"
    /\ tasks' = [tasks EXCEPT ![t] = FreeTask]
    /\ UNCHANGED <<today, users, checkins, notes, recipes, user_states,
                   challenges, now, scheduler, fanout, ai>>

NextLoops ==
    \/ StopScheduler
    \/ \E t \in Tasks :
        \/ CallStartScheduler(t)
        \/ LoopWake(t)
        \/ LoopProcessed(t)
        \/ LoopBackoffDone(t)
        \/ LoopReturned(t)

SpecLoops == Init /\ [][NextLoops]_vars

\* ------------------------------------------------------------------ fan-out
\* models.Challenge: completed defaults to false.
ChallengeRow(uid, d, text) ==
    [user_id |-> uid, challenge_date |-> d, challenge_text |-> text,
     completed |-> FALSE]

\* AIService.generate_weekly_challenge returns the generated text or one of
\* the fallback texts.
ChallengeTexts == {"generated", "fallback"}

\* _get_all_users: select(User), the rows in primary-key order.
RECURSIVE InIdOrder(_)
InIdOrder(S) ==
    IF S = {} THEN <<>>
    ELSE LET u == CHOOSE v \in S : \A w \in S : users[v].id <= users[w].id
         IN  <<u>> \o InIdOrder(S \ {u})

AllUsers == InIdOrder({u \in Users : HasUser(u)})

ChallengeRows ==
    LET RECURSIVE Sum(_)
        Sum(S) == IF S = {} THEN 0
                  ELSE LET u == CHOOSE v \in S : TRUE
                       IN  Len(challenges[u]) + Sum(S \ {u})
    IN  Sum(Users)

\* Rows the table holds or is about to be given by what is under way.
PendingChallengeRows ==
    ChallengeRows
    + (IF fanout.kind = "challenge" THEN Len(fanout.queue) ELSE 0)
    + Cardinality({t \in Tasks : /\ tasks[t].handler = "test_challenge"
                                 /\ tasks[t].pc # "replied"})

\* A firing starts: the users are loaded; when the query fails
\* _get_all_users returns [].
Loaded(kind, ok, text) ==
    LET queue == IF ok THEN AllUsers ELSE <<>>
    IN  [IdleFanout EXCEPT !.kind = kind,
                           !.known = {u \in Users : HasUser(u)},
                           !.queue = queue,
                           !.text = text,
                           !.pc = IF queue = <<>> THEN "done"
                                  ELSE IF kind = "reminder" THEN "lookup"
                                  ELSE "create"]

\* The for loop left at the first user it has handled.
NextInQueue_Break(f) == [f EXCEPT !.queue = <<>>, !.pc = "done"]

\* The for loop goes to the next user, or ends.
NextInQueue(f) ==
    [f EXCEPT !.queue = Tail(@),
              !.pc = IF Tail(f.queue) = <<>> THEN "done"
                     ELSE IF f.kind = "reminder" THEN "lookup" ELSE "create"]

\* _send_daily_reminders with a reminder for every user.
ReminderDue_Always(rows) == TRUE

\* _send_daily_reminders: `if not today_checkin`.
ReminderDue(rows) == rows = {}

\* _send_daily_reminders up to the for loop.
SendDailyReminders ==
    /\ fanout.pc \in {"idle", "done"}
    /\ \E ok \in BOOLEAN : fanout' = Loaded("reminder", ok, "none")
    /\ UNCHANGED <<today, users, checkins, notes, recipes, user_states, tasks,
                   challenges, now, scheduler, ai>>

\* _send_daily_reminders, in the loop: get_today_checkin for the user.  It
\* raises on more than one row (scalar_one_or_none) or on a database error;
\* the except clause of the loop logs and goes on.
ReminderLookup ==
    /\ fanout.pc = "lookup"
    /\ LET u == Head(fanout.queue)
           rows == TodayCheckins(u, users[u].id)
       IN  \E error \in BOOLEAN :
            fanout' = IF error \/ Cardinality(rows) > 1 THEN NextInQueue(fanout)
                      ELSE IF ReminderDue(rows)
                      THEN [fanout EXCEPT !.pc = "send", !.due = @ \cup {u}]
                      ELSE NextInQueue(fanout)
    /\ UNCHANGED <<today, users, checkins, notes, recipes, user_states, tasks,
                   challenges, now, scheduler, ai>>

\* _send_reminder_to_user: bot.send_message delivers, or raises and the
\* error is logged.
ReminderSend ==
    /\ fanout.pc = "send"
    /\ LET u == Head(fanout.queue)
       IN  \E ok \in BOOLEAN :
            fanout' = NextInQueue([fanout EXCEPT !.sent[u] = IF ok THEN @ + 1 ELSE @])
    /\ UNCHANGED <<today, users, checkins, notes, recipes, user_states, tasks,
                   challenges, now, scheduler, ai>>

\* _create_weekly_challenges up to the for loop: the users are loaded and
\* the challenge text is generated.
CreateWeeklyChallenges ==
    /\ fanout.pc \in {"idle", "done"}
    /\ PendingChallengeRows + Cardinality({u \in Users : HasUser(u)}) <= MaxChallenges
    /\ \E ok \in BOOLEAN, text \in ChallengeTexts :
            fanout' = Loaded("challenge", ok, text)
    /\ UNCHANGED <<today, users, checkins, notes, recipes, user_states, tasks,
                   challenges, now, scheduler, ai>>

\* _create_weekly_challenges, in the loop: create_challenge commits the row,
\* or raises and the except clause of the loop logs and goes on.
ChallengeCreate ==
    /\ fanout.pc = "create"
    /\ LET u == Head(fanout.queue)
       IN  \E ok \in BOOLEAN :
            IF ok
            THEN /\ challenges' = [challenges EXCEPT ![u] =
                        Append(@, ChallengeRow(users[u].id, today, fanout.text))]
                 /\ fanout' = [fanout EXCEPT !.pc = "notify"]
            ELSE /\ fanout' = NextInQueue(fanout)
                 /\ UNCHANGED challenges
    /\ UNCHANGED <<today, users, checkins, notes, recipes, user_states, tasks,
                   now, scheduler, ai>>

\* _send_challenge_notification: bot.send_message delivers, or raises and
\* the error is logged.
ChallengeNotify ==
    /\ fanout.pc = "notify"
    /\ LET u == Head(fanout.queue)
       IN  \E ok \in BOOLEAN :
            fanout' = NextInQueue([fanout EXCEPT !.sent[u] = IF ok THEN @ + 1 ELSE @])
    /\ UNCHANGED <<today, users, checkins, notes, recipes, user_states, tasks,
                   challenges, now, scheduler, ai>>

FanoutStep ==
    \/ ReminderLookup
    \/ ReminderSend
    \/ ChallengeCreate
    \/ ChallengeNotify

\* The firings of the scheduler on one day, while check-in callbacks are
\* handled one after the other.
NextFanout ==
    \/ \E t \in Tasks, u \in Users, s \in BOOLEAN :
            NoTaskInFlight /\ StartCheckin(t, u, s)
    \/ \E t \in Tasks : CheckinStep(t)
    \/ SendDailyReminders
    \/ CreateWeeklyChallenges
    \/ FanoutStep

\* The daily reminder over several days, while check-in callbacks are
\* handled one after the other.
NextReminder ==
    \/ \E t \in Tasks, u \in Users, s \in BOOLEAN :
            NoTaskInFlight /\ StartCheckin(t, u, s)
    \/ \E t \in Tasks : CheckinStep(t)
    \/ AdvanceDay(MaxRaceDay)
    \/ SendDailyReminders
    \/ ReminderLookup
    \/ ReminderSend

SpecReminder == Init /\ [][NextReminder]_vars

SpecFanout == Init /\ [][NextFanout]_vars

\* ------------------------------------------------------------------ challenges
\* get_today_challenge with the date filter lost.
TodayChallenges_NoDateMatch(u, uid) ==
    {i \in 1..Len(challenges[u]) : challenges[u][i].user_id = uid}

\* ChallengeRepository.get_today_challenge: the ids of the rows that match.
TodayChallenges(u, uid) ==
    {i \in 1..Len(challenges[u]) :
        /\ challenges[u][i].user_id = uid
        /\ challenges[u][i].challenge_date = today}

\* CheckInHandler.handle_challenge: a challenge_complete callback.
StartChallenge(t, u) ==
    /\ IsFirstFree(t)
    /\ RouteCallback(<<"challenge", "complete">>) = "CheckInHandler.handle_challenge"
    /\ tasks' = [tasks EXCEPT ![t] =
            [FreeTask EXCEPT !.pc = "get_user", !.handler = "challenge", !.tg = u]]
    /\ UNCHANGED <<today, users, checkins, notes, recipes, user_states>>
    /\ UNCHANGED service_vars

\* handle_challenge: get_today_challenge and the test of the row.
\* scalar_one_or_none raises on more than one row.
GetTodayChallenge(t) ==
    /\ tasks[t].pc = "got_user"
    /\ tasks[t].handler = "challenge"
    /\ LET rows == TodayChallenges(tasks[t].tg, tasks[t].user.id)
           id == CHOOSE i \in rows : TRUE
       IN  tasks' = [tasks EXCEPT ![t] =
                IF Cardinality(rows) > 1 THEN Ended(@, "raised")
                ELSE IF rows # {} /\ ~challenges[tasks[t].tg][id].completed
                THEN [@ EXCEPT !.pc = "complete_challenge",
                               !.arg = [id |-> id, date |-> today]]
                ELSE Replied([@ EXCEPT !.branch = "not_found"])]
    /\ UNCHANGED <<today, users, checkins, notes, recipes, user_states>>
    /\ UNCHANGED service_vars

\* ChallengeRepository.complete_challenge and the reply.
CompleteChallenge(t) ==
    /\ tasks[t].pc = "complete_challenge"
    /\ challenges' = [challenges EXCEPT
            ![tasks[t].tg][tasks[t].arg.id].completed = TRUE]
    /\ tasks' = [tasks EXCEPT ![t] = Replied([@ EXCEPT !.branch = "completed"])]
    /\ UNCHANGED <<today, users, checkins, notes, recipes, user_states, now,
                   scheduler, fanout, ai>>

\* StartHandler.test_challenge_command: /test_challenge.
StartTestChallenge(t, u) ==
    /\ IsFirstFree(t)
    /\ PendingChallengeRows < MaxChallenges
    /\ tasks' = [tasks EXCEPT ![t] =
            [FreeTask EXCEPT !.pc = "get_by_telegram_id",
                             !.handler = "test_challenge", !.tg = u]]
    /\ UNCHANGED <<today, users, checkins, notes, recipes, user_states>>
    /\ UNCHANGED service_vars

\* create_test_challenge: get_by_telegram_id; without a user it returns and
\* the command replies; with one the challenge text is generated.
TestChallengeGetUser(t) ==
    /\ tasks[t].pc = "get_by_telegram_id"
    /\ LET u == tasks[t].tg
       IN  \E text \in ChallengeTexts :
            tasks' = [tasks EXCEPT ![t] =
                IF HasUser(u)
                THEN [@ EXCEPT !.pc = "create_challenge", !.user = users[u],
                               !.arg = text]
                ELSE Replied([@ EXCEPT !.branch = "no_user"])]
    /\ UNCHANGED <<today, users, checkins, notes, recipes, user_states>>
    /\ UNCHANGED service_vars

\* create_test_challenge: create_challenge commits the row, or raises and
\* the error is logged; the notification and the reply of the command
\* follow and change no table.
TestChallengeCreate(t) ==
    /\ tasks[t].pc = "create_challenge"
    /\ LET u == tasks[t].tg
       IN  \E ok \in BOOLEAN :
            /\ challenges' = IF ok
                             THEN [challenges EXCEPT ![u] =
                                    Append(@, ChallengeRow(tasks[t].user.id, today,
                                                           tasks[t].arg))]
                             ELSE challenges
            /\ tasks' = [tasks EXCEPT ![t] =
                    Replied([@ EXCEPT !.branch = IF ok THEN "created" ELSE "failed"])]
    /\ UNCHANGED <<today, users, checkins, notes, recipes, user_states, now,
                   scheduler, fanout, ai>>

ChallengeStep(t) ==
    \/ GetUser(t)
    \/ CreateUser(t)
    \/ GetTodayChallenge(t)
    \/ CompleteChallenge(t)
    \/ TestChallengeGetUser(t)
    \/ TestChallengeCreate(t)
    \/ Finish(t)

\* Challenges are created by the weekly firing and by /test_challenge and
\* completed by the button; the handlers run one after the other, the
\* firing runs beside them.
NextChallenge ==
    \/ \E t \in Tasks, u \in Users : NoTaskInFlight /\ StartChallenge(t, u)
    \/ \E t \in Tasks, u \in Users : NoTaskInFlight /\ StartTestChallenge(t, u)
    \/ \E t \in Tasks : ChallengeStep(t)
    \/ AdvanceDay(MaxRaceDay)
    \/ CreateWeeklyChallenges
    \/ ChallengeCreate
    \/ ChallengeNotify

SpecChallenge == Init /\ [][NextChallenge]_vars

\* The commands alone, one after the other, with no weekly firing: every
\* challenge row comes from a /test_challenge command.
NextTestChallenge ==
    \/ \E t \in Tasks, u \in Users : NoTaskInFlight /\ StartChallenge(t, u)
    \/ \E t \in Tasks, u \in Users : NoTaskInFlight /\ StartTestChallenge(t, u)
    \/ \E t \in Tasks : ChallengeStep(t)
    \/ AdvanceDay(MaxRaceDay)

SpecTestChallenge == Init /\ [][NextTestChallenge]_vars

\* ------------------------------------------------------------------ the bot
\* Rows in the four tables of entities.
BotRows ==
    LET RECURSIVE Sum(_)
        Sum(S) == IF S = {} THEN 0
                  ELSE LET u == CHOOSE v \in S : TRUE
                       IN  Len(checkins[u]) + Len(notes[u]) + Len(recipes[u])
                           + Len(challenges[u]) + Sum(S \ {u})
    IN  Sum(Users)

\* An update is taken up when the handler before it has returned; one that
\* may store a row is taken up while the tables have room.
TakeUp(stores) == NoTaskInFlight /\ (stores => BotRows < MaxRows)

\* The user whose updates are followed through every handler.
BotUsers == {101}

\* Every handler of the model on one day for one user, one update handled
\* after the other, with the firings of the scheduler running beside them.
NextBot ==
    \/ \E t \in Tasks, u \in BotUsers, s \in BOOLEAN :
            TakeUp(TRUE) /\ StartCheckin(t, u, s)
    \/ \E t \in Tasks, u \in BotUsers, x \in Texts :
            TakeUp(Route(user_states, u, x) \in ModeBranches) /\ HandleText(t, u, x)
    \/ \E u \in BotUsers : TakeUp(FALSE) /\ StartRecipeCreation(u)
    \/ \E t \in Tasks, u \in BotUsers : TakeUp(FALSE) /\ StartNoteCreation(t, u)
    \/ \E t \in Tasks, u \in BotUsers : TakeUp(FALSE) /\ StartSlipAnalysis(t, u)
    \/ \E t \in Tasks, u \in BotUsers : TakeUp(FALSE) /\ StartMenuBack(t, u)
    \/ \E t \in Tasks, u \in BotUsers : TakeUp(FALSE) /\ StartChallenge(t, u)
    \/ \E t \in Tasks, u \in BotUsers : TakeUp(TRUE) /\ StartTestChallenge(t, u)
    \/ \E t \in Tasks : CheckinStep(t)
    \/ \E t \in Tasks : TextStep(t)
    \/ \E t \in Tasks : ChallengeStep(t)
    \/ SendDailyReminders
    \/ BotRows < MaxRows /\ CreateWeeklyChallenges
    \/ FanoutStep

SpecBot == Init /\ [][NextBot]_vars

\* ------------------------------------------------------------------ repositories
\* The texts given to the repositories.
RepoTexts == {<<"yabloki", "korica">>, <<"Hochu", "sladkogo">>}

\* The calls of the repositories that write an entity, and what a call may
\* be given.
RepoInputs(op) ==
    CASE op = "create_checkin" -> BOOLEAN
      [] op = "create_note" -> RepoTexts
      [] op = "create_recipe" -> [ingredients : RepoTexts, recipe_text : {"generated"}]
      [] op = "create_challenge" -> ChallengeTexts
      [] op = "complete_challenge" -> 1..MaxRows

RepoOps == {"create_checkin", "create_note", "create_recipe", "create_challenge",
            "complete_challenge"}

\* Calls that are going to insert a row.
RepoInserting ==
    Cardinality({t \in Tasks : tasks[t].pc = "commit"
                               /\ tasks[t].handler # "complete_challenge"})

\* UserRepository.create_user
RepoCreateUser(u) ==
    /\ ~HasUser(u)
    /\ users' = [users EXCEPT ![u] = NewUser(NextUserId)]
    /\ UNCHANGED <<today, checkins, notes, recipes, user_states, tasks>>
    /\ UNCHANGED service_vars

\* A repository method is called for a stored user: the entity is built
\* from the arguments and added to the session.
RepoCall(t, u, op, x) ==
    /\ IsFirstFree(t)
    /\ HasUser(u)
    /\ op # "complete_challenge" => BotRows + RepoInserting < MaxRows
    /\ tasks' = [tasks EXCEPT ![t] =
            [FreeTask EXCEPT !.pc = "commit", !.handler = op, !.tg = u,
                             !.arg = x, !.user = users[u]]]
    /\ UNCHANGED <<today, users, checkins, notes, recipes, user_states>>
    /\ UNCHANGED service_vars

\* CheckInRepository.create_checkin: commit, refresh, return.
RepoCreateCheckin(t) ==
    /\ tasks[t].pc = "commit"
    /\ tasks[t].handler = "create_checkin"
    /\ checkins' = [checkins EXCEPT ![tasks[t].tg] =
            Append(@, CheckInRow(tasks[t].user.id, today, tasks[t].arg))]
    /\ tasks' = [tasks EXCEPT ![t] = FreeTask]
    /\ UNCHANGED <<today, users, notes, recipes, user_states>>
    /\ UNCHANGED service_vars

\* NoteRepository.create_note: commit, refresh, return.
RepoCreateNote(t) ==
    /\ tasks[t].pc = "commit"
    /\ tasks[t].handler = "create_note"
    /\ notes' = [notes EXCEPT ![tasks[t].tg] =
            Append(@, NoteRow(tasks[t].user.id, tasks[t].arg))]
    /\ tasks' = [tasks EXCEPT ![t] = FreeTask]
    /\ UNCHANGED <<today, users, checkins, recipes, user_states>>
    /\ UNCHANGED service_vars

\* RecipeRepository.create_recipe: commit, refresh, return.
RepoCreateRecipe(t) ==
    /\ tasks[t].pc = "commit"
    /\ tasks[t].handler = "create_recipe"
    /\ recipes' = [recipes EXCEPT ![tasks[t].tg] =
            Append(@, RecipeRow(tasks[t].user.id, tasks[t].arg.ingredients,
                                tasks[t].arg.recipe_text))]
    /\ tasks' = [tasks EXCEPT ![t] = FreeTask]
    /\ UNCHANGED <<today, users, checkins, notes, user_states>>
    /\ UNCHANGED service_vars

\* ChallengeRepository.create_challenge: commit, refresh, return.
RepoCreateChallenge(t) ==
    /\ tasks[t].pc = "commit"
    /\ tasks[t].handler = "create_challenge"
    /\ challenges' = [challenges EXCEPT ![tasks[t].tg] =
            Append(@, ChallengeRow(tasks[t].user.id, today, tasks[t].arg))]
    /\ tasks' = [tasks EXCEPT ![t] = FreeTask]
    /\ UNCHANGED <<today, users, checkins, notes, recipes, user_states, now,
                   scheduler, fanout, ai>>

\* ChallengeRepository.complete_challenge: session.get, and when the row is
\* there completed = True and the commit.
RepoCompleteChallenge(t) ==
    /\ tasks[t].pc = "commit"
    /\ tasks[t].handler = "complete_challenge"
    /\ challenges' = IF tasks[t].arg \in 1..Len(challenges[tasks[t].tg])
                     THEN [challenges EXCEPT
                            ![tasks[t].tg][tasks[t].arg].completed = TRUE]
                     ELSE challenges
    /\ tasks' = [tasks EXCEPT ![t] = FreeTask]
    /\ UNCHANGED <<today, users, checkins, notes, recipes, user_states, now,
                   scheduler, fanout, ai>>

\* The repositories called one call after the other, over several days.
NextRepo ==
    \/ \E u \in Users : NoTaskInFlight /\ RepoCreateUser(u)
    \/ \E t \in Tasks, u \in Users, op \in RepoOps :
            \E x \in RepoInputs(op) : NoTaskInFlight /\ RepoCall(t, u, op, x)
    \/ \E t \in Tasks : RepoCreateCheckin(t)
    \/ \E t \in Tasks : RepoCreateNote(t)
    \/ \E t \in Tasks : RepoCreateRecipe(t)
    \/ \E t \in Tasks : RepoCreateChallenge(t)
    \/ \E t \in Tasks : RepoCompleteChallenge(t)
    \/ AdvanceDay(MaxRaceDay)

SpecRepo == Init /\ [][NextRepo]_vars

\* ------------------------------------------------------------------ generator
\* The three generating methods of AIService.
Generators == {"generate_recipe", "generate_motivation", "generate_weekly_challenge"}

\* Streaks at and around the thresholds of _get_fallback_motivation.
Streaks == {0, 1, 6, 7, 8, 29, 30, 31}

\* The fallback challenges of _get_fallback_weekly_challenge.
FallbackChallenges == 1..7

\* What a generating method is called with.
GeneratorArgs(fn) ==
    CASE fn = "generate_recipe" -> Texts
      [] fn = "generate_motivation" -> Streaks
      [] fn = "generate_weekly_challenge" -> {0}

\* What a method hands to its caller: a text (what it is, of which method,
\* and what it says), or an exception that leaves the method.
Text(kind, fn, body) == [kind |-> kind, fn |-> fn, body |-> body]
Raises == [kind |-> "raises", fn |-> "none", body |-> <<>>]

\* _get_fallback_motivation: the message of the streak.
FallbackMotivation(streak) ==
    IF streak = 0 THEN <<"every day is a new chance">>
    ELSE IF streak < 7 THEN <<"great start", streak>>
    ELSE IF streak < 30 THEN <<"incredible", streak>>
    ELSE <<"amazing", streak>>

\* _get_fallback_recipe, _get_fallback_motivation and
\* _get_fallback_weekly_challenge (pick is random.choice).
Fallback(fn, arg, pick) ==
    CASE fn = "generate_recipe" -> Text("fallback", fn, <<"salad">> \o arg)
      [] fn = "generate_motivation" -> Text("fallback", fn, FallbackMotivation(arg))
      [] fn = "generate_weekly_challenge" -> Text("fallback", fn, <<pick>>)

\* response.choices[0].message.content of a completed request.
Content(fn, arg) == Text("generated", fn, <<"content">>)

\* The outer except clause letting the exception through.
OnException_Propagates(fn, arg, pick) == Raises

\* `except Exception`: the error is logged and the fallback returned.
OnException(fn, arg, pick) == Fallback(fn, arg, pick)

\* What asyncio.wait_for(asyncio.to_thread(create)) and the reading of the
\* response come to: the content is read, wait_for raises TimeoutError, the
\* request raises, or the response has no choice to read.
Outcomes == {"ok", "timeout", "raise", "no_choice"}

\* The try block of a generating method.
Generate(fn, arg, pick, outcome) ==
    CASE outcome = "ok" -> Content(fn, arg)
      [] outcome = "timeout" -> Fallback(fn, arg, pick)
      [] outcome \in {"raise", "no_choice"} -> OnException(fn, arg, pick)

\* generate_*: without a client the fallback is returned at once, with one
\* the request is sent.
AICall(fn, arg) ==
    /\ ai.pc = "idle"
    /\ \E pick \in FallbackChallenges :
        ai' = IF ai.client
              THEN [ai EXCEPT !.pc = "requested", !.fn = fn, !.arg = arg,
                              !.outcome = "none", !.result = "none"]
              ELSE [ai EXCEPT !.pc = "returned", !.fn = fn, !.arg = arg,
                              !.outcome = "none",
                              !.result = Fallback(fn, arg, pick)]
    /\ UNCHANGED <<today, users, checkins, notes, recipes, user_states, tasks,
                   challenges, now, scheduler, fanout>>

\* generate_*: the request is over, one way or the other, and the method
\* returns.
AIRespond ==
    /\ ai.pc = "requested"
    /\ \E outcome \in Outcomes, pick \in FallbackChallenges :
        ai' = [ai EXCEPT !.pc = "returned", !.outcome = outcome,
                         !.result = Generate(ai.fn, ai.arg, pick, outcome)]
    /\ UNCHANGED <<today, users, checkins, notes, recipes, user_states, tasks,
                   challenges, now, scheduler, fanout>>

\* The caller has the text.
AIReturn ==
    /\ ai.pc = "returned"
    /\ ai' = [IdleCall EXCEPT !.client = ai.client]
    /\ UNCHANGED <<today, users, checkins, notes, recipes, user_states, tasks,
                   challenges, now, scheduler, fanout>>

NextAI ==
    \/ \E fn \in Generators : \E arg \in GeneratorArgs(fn) : AICall(fn, arg)
    \/ AIRespond
    \/ AIReturn

\* AIService.__init__: the client is built when DEEPSEEK_API_KEY is set.
InitAI ==
    /\ InitTables
    /\ now = 0
    /\ ai \in {[IdleCall EXCEPT !.client = c] : c \in BOOLEAN}

SpecAI == InitAI /\ [][NextAI]_vars

\* ------------------------------------------------------------------ streak writers
\* UserRepository.update_streak: current_streak is set to the argument,
\* longest_streak to the larger of the stored one and the argument.
SetStreak(u, current_streak, longest_streak) ==
    [u EXCEPT !.current_streak = current_streak,
              !.longest_streak = Max(u.longest_streak, longest_streak)]

\* UserRepository.update_streak called for a stored user.
UserUpdateStreak(u, current_streak, longest_streak) ==
    /\ HasUser(u)
    /\ users' = [users EXCEPT ![u] = SetStreak(@, current_streak, longest_streak)]
    /\ UNCHANGED <<today, checkins, notes, recipes, user_states, tasks>>
    /\ UNCHANGED service_vars

\* CheckInRepository.update_streak called for a stored user.
CheckinUpdateStreak(u, success) ==
    /\ HasUser(u)
    /\ users[u].total_days < MaxDay
    /\ users' = [users EXCEPT ![u] = StreakAfter(@, success)]
    /\ UNCHANGED <<today, checkins, notes, recipes, user_states, tasks>>
    /\ UNCHANGED service_vars

\* The two methods that write streak counters, called for one user with
\* any arguments.
NextStreak ==
    \/ \E u \in BotUsers : RepoCreateUser(u)
    \/ \E u \in BotUsers, success \in BOOLEAN : CheckinUpdateStreak(u, success)
    \/ \E u \in BotUsers, c \in 0..MaxDay, l \in 0..MaxDay : UserUpdateStreak(u, c, l)

SpecStreak == Init /\ [][NextStreak]_vars

\* ------------------------------------------------------------------ state service
\* UserStateService called method by method.  The methods are synchronous:
\* each call is one step, and what it returned is kept in a slot until the
\* caller has taken it.
StateCall(method, u, value) ==
    [FreeTask EXCEPT !.pc = "returned", !.handler = method, !.tg = u,
                     !.arg = value]

\* UserStateService.set_user_state
StateSet(t, u, state) ==
    /\ IsFirstFree(t)
    /\ user_states' = set_user_state(user_states, u, state)
    /\ tasks' = [tasks EXCEPT ![t] = StateCall("set_user_state", u, <<>>)]
    /\ UNCHANGED <<today, users, checkins, notes, recipes>>
    /\ UNCHANGED service_vars

\* UserStateService.get_user_state
StateGet(t, u) ==
    /\ IsFirstFree(t)
    /\ tasks' = [tasks EXCEPT ![t] =
            StateCall("get_user_state", u, get_user_state(user_states, u))]
    /\ UNCHANGED <<today, users, checkins, notes, recipes, user_states>>
    /\ UNCHANGED service_vars

\* UserStateService.clear_user_state
StateClear(t, u) ==
    /\ IsFirstFree(t)
    /\ user_states' = clear_user_state(user_states, u)
    /\ tasks' = [tasks EXCEPT ![t] = StateCall("clear_user_state", u, <<>>)]
    /\ UNCHANGED <<today, users, checkins, notes, recipes>>
    /\ UNCHANGED service_vars

\* The caller has taken what the call returned.
StateReturn(t) ==
    /\ tasks[t].pc = "returned"
    /\ tasks[t].handler \in {"set_user_state", "get_user_state",
                              "clear_user_state"}
    /\ tasks' = [tasks EXCEPT ![t] = FreeTask]
    /\ UNCHANGED <<today, users, checkins, notes, recipes, user_states>>
    /\ UNCHANGED service_vars

\* The process is started again: UserStateService.__init__ makes an empty
\* dictionary, and nothing of the old one is read back.
StateRestart ==
    /\ user_states # <<>>
    /\ user_states' = [u \in {} |-> IDLE]
    /\ tasks' = [t \in Tasks |-> FreeTask]
    /\ UNCHANGED <<today, users, checkins, notes, recipes>>
    /\ UNCHANGED service_vars

NextState ==
    \/ \E t \in Tasks, u \in Users, state \in UserState : StateSet(t, u, state)
    \/ \E t \in Tasks, u \in Users : StateGet(t, u)
    \/ \E t \in Tasks, u \in Users : StateClear(t, u)
    \/ \E t \in Tasks : StateReturn(t)
    \/ StateRestart

SpecState == Init /\ [][NextState]_vars

\* ------------------------------------------------------------------ history
\* What the claims say about a user's history, stated on the rows alone.

\* The user has a stored check-in dated d.
HasCheckinOn(u, d) == \E i \in 1..Len(checkins[u]) : checkins[u][i].check_date = d

RowsOn(u, d) == {i \in 1..Len(checkins[u]) : checkins[u][i].check_date = d}

\* The pass/fail history in calendar order, one entry per day that has a row.
RECURSIVE HistoryUpTo(_, _)
HistoryUpTo(u, d) ==
    IF d = 0 THEN <<>>
    ELSE IF RowsOn(u, d) = {} THEN HistoryUpTo(u, d - 1)
         ELSE Append(HistoryUpTo(u, d - 1),
                     checkins[u][CHOOSE i \in RowsOn(u, d) : TRUE].success)

History(u) == HistoryUpTo(u, today)

\* Consecutive successes at the most-recent end of a history.
RECURSIVE TrailingRun(_)
TrailingRun(h) ==
    IF h = <<>> THEN 0
    ELSE IF h[Len(h)] THEN 1 + TrailingRun(SubSeq(h, 1, Len(h) - 1)) ELSE 0

\* The longest run of consecutive successes anywhere in a history.
LongestRun(h) ==
    LET runs == {j - i + 1 : <<i, j>> \in
                    {p \in (1..Len(h)) \X (1..Len(h)) :
                        p[1] <= p[2] /\ \A k \in p[1]..p[2] : h[k]}}
    IN  IF runs = {} THEN 0 ELSE CHOOSE m \in runs : \A r \in runs : r <= m

\* Every check-in of the user that was started has completed.
CheckinsCompleted(u) ==
    \A t \in Tasks : tasks[t].tg = u =>
        tasks[t].pc \notin {"create_checkin", "update_streak"}

\* ------------------------------------------------------------------ claims

\* C1: a check-in callback that is processed when the user already has a
\* stored check-in dated today is rejected: the step that finds the row ends
\* the handler as rejected, and neither that step nor anything the rejected
\* handler does afterwards adds a check-in row, changes a stored row or
\* changes the user's streak counters and totals.
C1_DuplicateCheckinRejected ==
    [][\A t \in Tasks :
        /\ ( /\ tasks[t].handler = "checkin"
             /\ tasks[t].pc = "got_user"
             /\ tasks'[t] # tasks[t]
             /\ HasCheckinOn(tasks[t].tg, today) )
           => /\ tasks'[t].pc = "rejected"
              /\ checkins' = checkins
              /\ users' = users
        /\ ( tasks[t].pc = "rejected" /\ tasks'[t] # tasks[t] )
           => /\ checkins' = checkins
              /\ users' = users
      ]_vars

C1_Witness ==
    \E t \in Tasks :
        /\ tasks[t].pc = "rejected"
        /\ tasks[t].handler = "checkin"
        /\ HasCheckinOn(tasks[t].tg, today)

\* C2: in every reachable state a user has at most one check-in row per
\* calendar day, also when two callbacks of the user are handled
\* concurrently.
C2_OneCheckinPerDay ==
    \A u \in Users : \A d \in 1..today : Cardinality(RowsOn(u, d)) <= 1

C6_ModeClearedWhenConsumed ==
    [][\A t \in Tasks :
        ( /\ tasks[t].pc = "free"
          /\ tasks'[t].handler = "text"
          /\ tasks'[t].branch \in ModeBranches )
        => get_user_state(user_states', tasks'[t].tg) = IDLE
      ]_vars

\* C7: a free-text message of a user who is in a waiting mode is interpreted
\* by that mode whatever the text contains: keywords are matched only for a
\* user with no pending mode.
C7_PendingModeOverridesKeywords ==
    [][\A t \in Tasks, u \in Users, x \in Texts :
        ( HandleText(t, u, x) /\ get_user_state(user_states, u) # IDLE )
        => tasks'[t].branch = StateBranch(user_states, u)
      ]_vars

\* C8: entering slip analysis replaces whatever mode was pending: when
\* handle_slip_analysis has run past get_user, the user is in
\* WaitingForSlipAnalysis, so that the following free text can only become
\* a slip analysis.
C8_SlipAnalysisReplacesMode ==
    [][\A t \in Tasks :
        ( /\ tasks[t].handler = "slip_analysis"
          /\ tasks[t].pc = "got_user"
          /\ tasks'[t] # tasks[t] )
        => /\ get_user_state(user_states', tasks[t].tg) = WAITING_FOR_SLIP_ANALYSIS
           /\ \A x \in Texts : KeywordBranch(x) = "none" =>
                Route(user_states', tasks[t].tg, x) = "slip_analysis"
      ]_vars

C10_NoteCreationTakesNextText ==
    [][\A t \in Tasks :
        ( tasks[t].pc = "free" /\ tasks'[t].handler = "note_creation" )
        => \A x \in Texts : KeywordBranch(x) = "none" =>
                Route(user_states', tasks'[t].tg, x) = "note"
      ]_vars

\* C11: when the handler of a menu_back callback has shown the main menu,
\* the user is Idle: a free-text message sent then is not taken as recipe
\* ingredients, note content or slip analysis.
C11_BackClearsMode ==
    [][\A t \in Tasks :
        ( /\ tasks'[t].handler = "menu_back"
          /\ tasks'[t].pc = "replied"
          /\ tasks[t].pc # "replied" )
        => /\ get_user_state(user_states', tasks'[t].tg) = IDLE
           /\ \A x \in Texts :
                Route(user_states', tasks'[t].tg, x) \notin ModeBranches
      ]_vars

\* The earliest instant strictly after n that is 19:00 of a day, and the
\* earliest that is 07:00 of a Monday.
EarliestReminderAfter(n) ==
    LET at == {d * DayLength + 19 * 60 : d \in DateOf(n)..(DateOf(n) + 1)}
    IN  CHOOSE m \in at : m > n /\ \A k \in at : k > n => m <= k

EarliestChallengeAfter(n) ==
    LET at == {d * DayLength + 7 * 60 : d \in DateOf(n)..(DateOf(n) + 7)}
        mondays == {m \in at : m > n /\ (m \div DayLength) % 7 = 0}
    IN  CHOOSE m \in mondays : \A k \in mondays : m <= k

\* C12: while the scheduler sleeps, its target is the earlier of the
\* earliest 19:00 strictly after now and the earliest Monday 07:00 strictly
\* after now, its task type is the one of that target, and the wait is
\* target minus now.
C12_TargetIsEarliestTask ==
    scheduler.pc = "sleep" =>
        LET r == EarliestReminderAfter(now)
            c == EarliestChallengeAfter(now)
        IN  /\ scheduler.next_task = IF r <= c THEN r ELSE c
            /\ scheduler.task_type = IF r <= c THEN "reminder" ELSE "challenge"
            /\ scheduler.next_task > now
            /\ scheduler.wait_seconds = (scheduler.next_task - now) * 60

\* The scheduler computed its target at 19:00 sharp of a Sunday: the
\* target is the Monday challenge, not the instant itself.
C12_Witness ==
    /\ scheduler.pc = "sleep"
    /\ now = 6 * DayLength + 19 * 60
    /\ scheduler.task_type = "challenge"
    /\ scheduler.next_task = now + 12 * 60

\* C13: when a sleep has completed, at its target or later, the processing
\* that follows starts the action of the target that was slept for, and
\* only that one.
C13_SleepIsFollowedByItsAction ==
    [][( scheduler.pc = "sleep" /\ scheduler'.pc = "firing" )
        => scheduler'.fired = {scheduler.task_type}]_vars

\* C14: an exception in the wait or in the processing takes the loop to
\* the backoff and leaves is_running as it is; after the backoff of 60
\* seconds the loop goes round and, while is_running is true, computes the
\* next target again; the loop is left only when is_running is false.
C14_ErrorDoesNotEndLoop ==
    [][ /\ ( scheduler.pc \in {"sleep", "firing"}
             /\ scheduler'.pc \notin {scheduler.pc, "firing", "loop"} )
           => /\ scheduler'.pc = "backoff"
              /\ scheduler'.is_running = scheduler.is_running
        /\ ( scheduler.pc = "backoff" /\ scheduler'.pc # "backoff" )
           => /\ scheduler'.pc = "loop"
              /\ now' >= now + 1
        /\ ( scheduler.pc = "loop" /\ scheduler'.pc # "loop" )
           => IF scheduler.is_running
              THEN /\ scheduler'.pc = "sleep"
                   /\ scheduler'.next_task > now
              ELSE scheduler'.pc = "exited"
        /\ ( scheduler'.pc = "exited" /\ scheduler.pc # "exited" )
           => ~scheduler.is_running
      ]_vars

\* After an exception and the backoff the loop sleeps for a new target.
C14_Witness ==
    /\ scheduler.pc = "sleep"
    /\ scheduler.retried
    /\ scheduler.is_running
    /\ scheduler.next_task > now

\* C15: when a firing has gone through its users, every user it targets
\* (reminder: the users it found without a check-in today; challenge: the
\* users the table held) has had the notification delivered at least once,
\* also when a send attempt failed.
C15_EveryTargetDelivered ==
    fanout.pc = "done" =>
        \A u \in (IF fanout.kind = "reminder" THEN fanout.due ELSE fanout.known) :
            fanout.sent[u] >= 1

\* C16: in a firing of the daily reminder, a user for whom the lookup finds
\* a check-in dated today is passed over without a message, a message is
\* only sent to the user that was just looked up, no user is looked up
\* twice, and no user is sent more than one reminder.
C16_ReminderOnlyWithoutCheckin ==
    [][fanout'.kind = "reminder" =>
        /\ ( fanout.pc = "lookup" /\ fanout' # fanout
             /\ HasCheckinOn(Head(fanout.queue), today) )
           => /\ fanout'.sent = fanout.sent
              /\ fanout'.pc # "send"
              /\ fanout'.queue = Tail(fanout.queue)
        /\ \A u \in Users :
            /\ fanout'.sent[u] <= 1
            /\ fanout'.sent[u] > fanout.sent[u] =>
                /\ fanout.pc = "send"
                /\ Head(fanout.queue) = u
                /\ u \in fanout.due
        /\ \A i, j \in DOMAIN fanout'.queue :
            i # j => fanout'.queue[i] # fanout'.queue[j]
      ]_vars

\* A firing is over in which one user had checked in and got no reminder
\* and the other had not and got one.
C16_Witness ==
    /\ fanout.pc = "done"
    /\ fanout.kind = "reminder"
    /\ \E u, v \in fanout.known :
        /\ HasCheckinOn(u, today)
        /\ u \notin fanout.due
        /\ fanout.sent[u] = 0
        /\ ~HasCheckinOn(v, today)
        /\ fanout.sent[v] = 1

\* C19: a challenge row is created not completed; completed never goes
\* back to false; it becomes true only by the complete step of a
\* challenge_complete press of the row's owner, on the row that press
\* found uncompleted and dated the day of its lookup; a press that finds no
\* challenge dated today, or finds it completed, changes no challenge row.
C19_CompletedOnlyByOwnerPress ==
    [][/\ \A u \in Users : \A i \in 1..Len(challenges'[u]) :
            IF i > Len(challenges[u])
            THEN ~challenges'[u][i].completed
            ELSE /\ challenges[u][i].completed => challenges'[u][i].completed
                 /\ (~challenges[u][i].completed /\ challenges'[u][i].completed)
                    => \E t \in Tasks :
                        /\ tasks[t].pc = "complete_challenge"
                        /\ tasks[t].handler = "challenge"
                        /\ tasks[t].tg = u
                        /\ tasks[t].arg.id = i
                        /\ tasks[t].arg.date = challenges[u][i].challenge_date
                        /\ tasks'[t].pc = "replied"
       /\ \A t \in Tasks :
            ( /\ tasks[t].handler = "challenge"
              /\ tasks[t].pc = "got_user"
              /\ tasks'[t] # tasks[t]
              /\ \A i \in 1..Len(challenges[tasks[t].tg]) :
                    challenges[tasks[t].tg][i].challenge_date = today
                        => challenges[tasks[t].tg][i].completed )
            => /\ challenges' = challenges
               /\ tasks'[t].pc \in {"replied", "raised"}
               /\ tasks'[t].pc = "replied" => tasks'[t].branch = "not_found"
      ]_vars

\* A second press has been answered "not found" while the user's challenge of
\* today is completed.
C19_Witness ==
    \E t \in Tasks :
        /\ tasks[t].handler = "challenge"
        /\ tasks[t].pc = "replied"
        /\ tasks[t].branch = "not_found"
        /\ \E i \in 1..Len(challenges[tasks[t].tg]) :
            /\ challenges[tasks[t].tg][i].challenge_date = today
            /\ challenges[tasks[t].tg][i].completed

\* C18: a user that exists and has no check-in recorded has
\* current_streak, longest_streak, total_days and total_slip_ups all 0,
\* whatever menus, notes, recipes, reminders and challenges there have been.
C18_CountersZeroBeforeFirstCheckin ==
    \A u \in Users :
        (HasUser(u) /\ checkins[u] = <<>>) =>
            /\ users[u].current_streak = 0
            /\ users[u].longest_streak = 0
            /\ users[u].total_days = 0
            /\ users[u].total_slip_ups = 0

\* A user without a check-in has a note or a recipe, a challenge, and has
\* been sent a reminder.
C18_Witness ==
    \E u \in Users :
        /\ HasUser(u)
        /\ checkins[u] = <<>>
        /\ notes[u] # <<>> \/ recipes[u] # <<>>
        /\ challenges[u] # <<>>
        /\ fanout.kind = "reminder"
        /\ fanout.sent[u] = 1

\* The table T after the step: the rows it held are where they were, with
\* the values they had.
RowsKept(T) ==
    \A u \in Users :
        /\ Len(T'[u]) >= Len(T[u])
        /\ \A i \in 1..Len(T[u]) : T'[u][i] = T[u][i]

\* The row a pending call of the repository method op for user u is going
\* to store is `row`, made of the arguments of that call.
StoredBy(op, u, row) ==
    \E t \in Tasks :
        /\ tasks[t].pc = "commit"
        /\ tasks[t].handler = op
        /\ tasks[t].tg = u
        /\ row = CASE op = "create_checkin" ->
                        [user_id |-> users[u].id, check_date |-> today,
                         success |-> tasks[t].arg]
                   [] op = "create_note" ->
                        [user_id |-> users[u].id, content |-> tasks[t].arg]
                   [] op = "create_recipe" ->
                        [user_id |-> users[u].id,
                         ingredients |-> tasks[t].arg.ingredients,
                         recipe_text |-> tasks[t].arg.recipe_text]
                   [] op = "create_challenge" ->
                        [user_id |-> users[u].id, challenge_date |-> today,
                         challenge_text |-> tasks[t].arg, completed |-> FALSE]

\* C17: a committed check-in, note, challenge or recipe row has an id (its
\* place in the table), the id of the owning user and exactly the field
\* values its create call was given, and no later operation alters a row
\* that is stored (but for completed of a challenge).
C17_RowsReadBackAsCreated ==
    [][/\ RowsKept(checkins)
       /\ RowsKept(notes)
       /\ RowsKept(recipes)
       /\ \A u \in Users :
            /\ Len(challenges'[u]) >= Len(challenges[u])
            /\ \A i \in 1..Len(challenges[u]) :
                [challenges'[u][i] EXCEPT !.completed = FALSE]
                    = [challenges[u][i] EXCEPT !.completed = FALSE]
       /\ \A u \in Users :
            /\ \A i \in (Len(checkins[u]) + 1)..Len(checkins'[u]) :
                StoredBy("create_checkin", u, checkins'[u][i])
            /\ \A i \in (Len(notes[u]) + 1)..Len(notes'[u]) :
                StoredBy("create_note", u, notes'[u][i])
            /\ \A i \in (Len(recipes[u]) + 1)..Len(recipes'[u]) :
                StoredBy("create_recipe", u, recipes'[u][i])
            /\ \A i \in (Len(challenges[u]) + 1)..Len(challenges'[u]) :
                StoredBy("create_challenge", u, challenges'[u][i])
      ]_vars

\* A note is stored as it was written, and a check-in of another user has
\* been recorded after it on a later day.
C17_Witness ==
    \E u, v \in Users :
        /\ u # v
        /\ Len(notes[u]) = 1
        /\ notes[u][1] = [user_id |-> users[u].id,
                          content |-> <<"Hochu", "sladkogo">>]
        /\ Len(checkins[v]) = 1
        /\ checkins[v][1].user_id = users[v].id
        /\ checkins[v][1].check_date = 2

\* C20: a generating method that has returned has handed over a text of
\* its own, never None and never an exception, and when the client is not
\* configured, the request timed out or the request raised, that text is
\* the fallback text (for a recipe, the one with the given ingredients).
C20_GeneratorAlwaysReturnsText ==
    ai.pc = "returned" =>
        /\ ai.result.kind \in {"generated", "fallback"}
        /\ ai.result.fn = ai.fn
        /\ ai.result.body # <<>>
        /\ (~ai.client \/ ai.outcome \in {"timeout", "raise"}) =>
            /\ ai.result.kind = "fallback"
            /\ ai.fn = "generate_recipe" => ai.result.body = <<"salad">> \o ai.arg
            /\ ai.fn = "generate_motivation" =>
                ai.result.body[1] =
                    (IF ai.arg = 0 THEN "every day is a new chance"
                     ELSE IF ai.arg <= 6 THEN "great start"
                     ELSE IF ai.arg <= 29 THEN "incredible"
                     ELSE "amazing")
            /\ ai.fn = "generate_weekly_challenge" =>
                ai.result.body[1] \in 1..7

\* A configured generator has returned the fallback recipe after a request
\* that raised.
C20_Witness ==
    /\ ai.pc = "returned"
    /\ ai.client
    /\ ai.outcome = "raise"
    /\ ai.fn = "generate_recipe"
    /\ ai.result.kind = "fallback"

\* C21: in every state, also between the two commits of a check-in
\* handler, the counters of a user account for every stored check-in row of
\* that user: total_days is the number of rows, total_slip_ups the number
\* of failed ones, and the current streak is the trailing run of successes.
C21_CheckinAllOrNothing ==
    \A u \in Users :
        /\ users[u].total_days = Len(checkins[u])
        /\ users[u].total_slip_ups =
              Cardinality({i \in 1..Len(checkins[u]) : ~checkins[u][i].success})
        /\ users[u].current_streak = TrailingRun(History(u))

\* C22: a user who has pressed recipe_create and has sent no message since
\* is waiting for recipe ingredients, whatever handlers of earlier messages
\* of that user complete meanwhile.
C22_EnteredModeStaysPending ==
    \A u \in Users :
        PromptShown(u) =>
            get_user_state(user_states, u) = WAITING_FOR_RECIPE_INGREDIENTS

\* C23: whenever the handling of a free-text message that a waiting mode
\* has taken ends, in whatever way, the user is Idle.
C23_ConsumedMessageEndsIdle ==
    [][\A t \in Tasks :
        ( /\ tasks[t].handler = "text"
          /\ tasks[t].branch \in ModeBranches
          /\ tasks'[t].pc = "free" )
        => get_user_state(user_states', tasks[t].tg) = IDLE
      ]_vars

\* 0 <= current_streak <= longest_streak <= total_days - total_slip_ups
StreakOrdered(u) ==
    /\ 0 <= u.current_streak
    /\ u.current_streak <= u.longest_streak
    /\ u.longest_streak <= u.total_days - u.total_slip_ups

\* C24: every write of the streak counters of a user whose counters are
\* ordered leaves them ordered, and no write decreases longest_streak.
C24_StreakCountersOrdered ==
    [][\A u \in Users :
        /\ StreakOrdered(users[u]) => StreakOrdered(users'[u])
        /\ HasUser(u) => users'[u].longest_streak >= users[u].longest_streak
      ]_vars

\* C25: each 19:00 occurrence starts at most one reminder fan-out and each
\* Monday 07:00 occurrence at most one challenge creation, whatever the loop
\* does in between (early and late wakes, busy firings, error backoffs).
\* The clock never runs backwards, and a step in which
\* _process_scheduled_tasks starts an action moves the clock strictly
\* forward, to a minute that is an occurrence of that action: two starts of
\* one action therefore fall in two different minutes, that is in two
\* different occurrences.
StartsAction ==
    /\ scheduler.pc = "sleep"
    /\ scheduler'.pc = "firing"
    /\ scheduler'.fired # {}

C25_OneFiringPerOccurrence ==
    [][/\ now' >= now
       /\ StartsAction =>
            /\ now' > now
            /\ "reminder" \in scheduler'.fired =>
                    TimeOf(now') = reminder_time.hour * 60 + reminder_time.minute
            /\ "challenge" \in scheduler'.fired =>
                    /\ weekday(now') = 0
                    /\ TimeOf(now') = challenge_time.hour * 60
                                        + challenge_time.minute]_vars

\* A reminder fan-out is started in the loop's second week: the loop has
\* gone round, past earlier occurrences, since the process started.
C25_Witness ==
    /\ scheduler.pc = "firing"
    /\ "reminder" \in scheduler.fired
    /\ now >= WeekLength

\* C26: whenever the loop is in the sleep of _wait_until_next_task, the
\* wait it computed is strictly positive and at most 24 hours, and no 19:00
\* instant lies strictly between the instant of the computation and the
\* target.
C26_WaitPositiveWithinADay ==
    scheduler.pc = "sleep" =>
        /\ scheduler.wait_seconds > 0
        /\ scheduler.wait_seconds <= 24 * 60 * 60
        /\ \A r \in (now + 1)..(scheduler.next_task - 1) :
                TimeOf(r) # reminder_time.hour * 60 + reminder_time.minute

\* The wait was computed at 19:00 sharp: it is the full 24 hours.
C26_Witness ==
    /\ scheduler.pc = "sleep"
    /\ TimeOf(now) = reminder_time.hour * 60 + reminder_time.minute
    /\ scheduler.wait_seconds = 24 * 60 * 60

\* C27: at most one start_scheduler coroutine is inside the while loop at
\* any time, whatever the sequence of start_scheduler and stop_scheduler
\* calls.
C27_AtMostOneLoop ==
    Cardinality({t \in Tasks : InLoop(t)}) <= 1

\* C28: once stop_scheduler has been called (start_scheduler is called once
\* only in this specification), the loop starts no further reminder fan-out
\* or challenge creation: every step in which _process_scheduled_tasks
\* starts an action is taken with is_running still set.
C28_NoFiringAfterStop ==
    [][StartsAction => scheduler.is_running]_vars

\* C29: in every reachable state a user has at most one challenge row per
\* calendar date.
C29_OneChallengePerUserAndDate ==
    \A u \in Users :
        \A i, j \in DOMAIN challenges[u] :
            challenges[u][i].challenge_date = challenges[u][j].challenge_date
                => i = j

\* C30: in a firing, a step that fails for the user at the head of the
\* queue (the check-in lookup raises for a user who has no check-in today,
\* create_challenge stores no row, or a send delivers nothing) changes
\* nothing but the loop's position: the firing keeps its kind, its text and
\* what it has sent, and goes on with the next user in the queue, ending
\* only when no user is left.
FailsForHead ==
    \/ /\ fanout.pc = "lookup"
       /\ TodayCheckins(Head(fanout.queue), users[Head(fanout.queue)].id) = {}
       /\ fanout'.pc # "send"
    \/ /\ fanout.pc = "create"
       /\ fanout'.pc # "notify"
    \/ /\ fanout.pc \in {"send", "notify"}
       /\ fanout'.sent = fanout.sent

C30_ErrorForOneUserKeepsTheRest ==
    [][(fanout' # fanout /\ FailsForHead) =>
        /\ fanout'.queue = Tail(fanout.queue)
        /\ fanout'.pc = IF Tail(fanout.queue) = <<>> THEN "done"
                        ELSE IF fanout.kind = "reminder" THEN "lookup"
                        ELSE "create"
        /\ fanout'.kind = fanout.kind
        /\ fanout'.known = fanout.known
        /\ fanout'.text = fanout.text
        /\ fanout'.sent = fanout.sent
        /\ challenges' = challenges]_vars

\* A weekly firing is notifying its last user after create_challenge has
\* failed for an earlier one, who is left without a row.
C30_Witness ==
    /\ fanout.kind = "challenge"
    /\ fanout.pc = "notify"
    /\ Len(fanout.queue) = 1
    /\ \E u \in fanout.known :
        /\ u # Head(fanout.queue)
        /\ challenges[u] = <<>>

\* C31: a user with no recorded mode is Idle, and clearing touches one user
\* only.  A get_user_state call for a user the dictionary does not hold
\* (never set, cleared, or looked up after a restart) returns IDLE; a
\* restart leaves the dictionary without any user; a clear_user_state call
\* leaves its user without a recorded mode, leaves every other user's
\* entry as it was, and changes nothing when its user had no entry (a
\* second clear is a no-op).
Called(t, method) ==
    /\ tasks[t].pc = "free"
    /\ tasks'[t].pc = "returned"
    /\ tasks'[t].handler = method

C31_NoRecordedModeIsIdle ==
    [][/\ \A t \in Tasks :
            /\ ( Called(t, "get_user_state")
                 /\ tasks'[t].tg \notin DOMAIN user_states )
               => tasks'[t].arg = IDLE
            /\ Called(t, "clear_user_state")
               => LET u == tasks'[t].tg
                  IN  /\ u \notin DOMAIN user_states'
                      /\ \A v \in Users \ {u} :
                            /\ v \in DOMAIN user_states' <=> v \in DOMAIN user_states
                            /\ v \in DOMAIN user_states =>
                                    user_states'[v] = user_states[v]
                      /\ u \notin DOMAIN user_states =>
                            user_states' = user_states
       /\ ( user_states' # user_states
            /\ \A t \in Tasks : tasks'[t].pc = "free" )
          => DOMAIN user_states' = {}]_vars

\* get_user_state has returned IDLE for a user who has no entry, while a
\* clear_user_state call for that user has returned too and the other
\* user's waiting mode is still recorded.
C31_Witness ==
    \E t, s \in Tasks, u, v \in Users :
        /\ u # v
        /\ u \notin DOMAIN user_states
        /\ v \in DOMAIN user_states
        /\ user_states[v] = WAITING_FOR_RECIPE_INGREDIENTS
        /\ tasks[t].pc = "returned" /\ tasks[t].handler = "get_user_state"
        /\ tasks[t].tg = u /\ tasks[t].arg = IDLE
        /\ tasks[s].pc = "returned" /\ tasks[s].handler = "clear_user_state"
        /\ tasks[s].tg = u

====
